---- MODULE Spec2Model ----
(***************************************************************************)
(* A model of the IQFeed client: iqfeed/service.py (Service: the session   *)
(* registry, the request pacer and the paginated queries) and              *)
(* iqfeed/connection.py (Connection: framing, classification, handshake    *)
(* and row projection).                                                    *)
(*                                                                         *)
(* Text is modelled as a sequence of symbols: the delimiters "," "\r" "\n" *)
(* are symbols of their own and every other symbol stands for a run of     *)
(* ordinary characters, so str.split is computed, not assumed.             *)
(***************************************************************************)
EXTENDS Integers, Sequences, FiniteSets, TLC

VARIABLES
    time_stamp_queue,   \* Service._time_stamp_queue
    now,                \* the clock read by datetime.now(), in ticks
    lastAdmit,          \* what the last check_requests() call saw and did
    connections,        \* Service.connections: name -> Connection object or None
    svc_connected,      \* Service._connected
    wire,               \* per session name: what the daemon answers to its next reads
    refusals,           \* how many of the next transport connects the daemon refuses
    events,             \* the transport and pacer calls of the last operation, in order
    ret,                \* the last operation: its name, arguments and outcome
    contexts            \* per thread inside check_requests(): its position and locals

pacerVars == <<time_stamp_queue, now, lastAdmit>>
svcVars == <<connections, svc_connected, wire, refusals, events, ret>>
vars == <<time_stamp_queue, now, lastAdmit, connections, svc_connected, wire, refusals,
          events, ret, contexts>>

\* ------------------------------------------------------------------ bounds

\* Clock ticks in one second.
TicksPerSecond == 2
\* The clock is advanced by Tick up to this many ticks.
MaxTime == 2
\* check_requests is called while the window holds fewer entries than this.
MaxQueue == 52

\* ------------------------------------------------------------------- text

\* str.split(d): the parts of s between the occurrences of the symbol d.
RECURSIVE Split(_, _)
Split(s, d) ==
    IF \A i \in 1..Len(s) : s[i] # d THEN <<s>>
    ELSE LET k == CHOOSE i \in 1..Len(s) : s[i] = d /\ \A j \in 1..(i - 1) : s[j] # d
         IN <<SubSeq(s, 1, k - 1)>> \o Split(SubSeq(s, k + 1, Len(s)), d)

\* message.split(",")
Tokens(message) == Split(message, ",")

\* A one-symbol token, as the code writes it in a comparison ("E", "\r").
Tok(sym) == <<sym>>

\* A message written from its fields, each one symbol or "" for an empty
\* field: the fields joined by ",".
RECURSIVE CSV(_)
CSV(fields) ==
    IF Len(fields) = 0 THEN <<>>
    ELSE LET head == IF fields[1] = "" THEN <<>> ELSE <<fields[1]>>
         IN IF Len(fields) = 1 THEN head
            ELSE head \o <<",">> \o CSV(Tail(fields))

\* Several messages as the daemon sends them: each followed by "\n".
RECURSIVE Lines(_)
Lines(messages) ==
    IF Len(messages) = 0 THEN <<>>
    ELSE messages[1] \o <<"\n">> \o Lines(Tail(messages))

\* The value None of the source, and a value that is not None.
None == [some |-> FALSE, val |-> <<>>]
Some(v) == [some |-> TRUE, val |-> v]

\* del seq[k]
DelAt(seq, k) == SubSeq(seq, 1, k - 1) \o SubSeq(seq, k + 1, Len(seq))

\* The largest of a set of naturals (0 for the empty set).
Max(S) == IF S = {} THEN 0 ELSE CHOOSE x \in S : \A y \in S : y <= x

\* ------------------------------------------------------- Connection.read

\* msg.split("\n") and the drop of a last empty element.
Frame(msg) ==
    LET messages == Split(msg, "\n")
    IN IF messages[Len(messages)] = <<>>
       THEN SubSeq(messages, 1, Len(messages) - 1)
       ELSE messages

\* Connection.check_error: the index its loop leaves in idx_delete (0 for
\* None): the last message whose first token is E.
IdxDelete(messages) ==
    Max({i \in 1..Len(messages) : Tokens(messages[i])[1] = Tok("E")})

\* Connection.check_error raises IndexError at split_message[1] when an
\* E message has no second token.
CheckErrorRaises(messages) ==
    \E i \in 1..Len(messages) :
        Tokens(messages[i])[1] = Tok("E") /\ Len(Tokens(messages[i])) < 2

\* A filter that removes every message whose first token is E.
CheckErrorRemovesAll(messages) ==
    SelectSeq(messages, LAMBDA message : Tokens(message)[1] # Tok("E"))

\* Connection.check_error: the list it returns.
check_error(messages) ==
    IF IdxDelete(messages) = 0 THEN messages
    ELSE DelAt(messages, IdxDelete(messages))

\* Connection.check_system_messages
check_system_messages(messages) ==
    \E i \in 1..Len(messages) : Tokens(messages[i])[1] = Tok("S")

\* pd.DataFrame(rows, columns): rows shorter than the widest are padded;
\* a column list of another length than the widest row raises ValueError.
\* columns = None gives the default labels.
Width(rows) == Max({Len(rows[i]) : i \in 1..Len(rows)})
FrameRaises(rows, columns) ==
    columns.some /\ Len(rows) > 0 /\ Width(rows) # Len(columns.val)

\* A projection that drops the symbol with the tag.
ProjectRowWithoutSymbol(message) ==
    LET split_message == Tokens(message)
        dropped == SubSeq(split_message, 1, Len(split_message) - 1)
    IN SubSeq(dropped, 3, Len(dropped))

\* Connection.process_stream: one projected row.
ProjectRow(message) ==
    LET split_message == Tokens(message)
        dropped == SubSeq(split_message, 1, Len(split_message) - 1)
    IN SubSeq(dropped, 2, Len(dropped))

IsUpdate(message) == Tokens(message)[1] = Tok("Q")

\* Connection.process_stream: data_out.
RECURSIVE process_stream(_)
process_stream(messages) ==
    IF Len(messages) = 0 THEN <<>>
    ELSE (IF IsUpdate(messages[1]) THEN <<ProjectRow(messages[1])>> ELSE <<>>)
         \o process_stream(Tail(messages))

\* Connection.process_admin raises IndexError at split_message[1] when a
\* message has a single token.
ProcessAdminRaises(messages) ==
    \E i \in 1..Len(messages) : Len(Tokens(messages[i])) < 2

IsStats(message) == Tokens(message)[2] = Tok("STATS")

\* Connection.process_admin: data_out, the STATS rows.
RECURSIVE process_admin(_)
process_admin(messages) ==
    IF Len(messages) = 0 THEN <<>>
    ELSE (IF IsStats(messages[1]) THEN <<Tokens(messages[1])>> ELSE <<>>)
         \o process_admin(Tail(messages))

STREAM_PORTS == {5009, 9200}

\* What one call of Connection.read did: the exception it raised ("none"
\* when it returned), the kind of value it returned ("list": the messages;
\* "table": rows under columns) and the values of its locals.
Cycle(raised, kind, framed, filtered, system, rows, columns) ==
    [raised |-> raised, kind |-> kind, framed |-> framed, filtered |-> filtered,
     system |-> system, messages |-> IF kind = "list" THEN filtered ELSE <<>>,
     rows |-> rows, columns |-> columns]

\* Connection.read, line 119: pd.DataFrame(data_out, columns=...).
StreamTable(framed, filtered, data_out, update_fieldnames) ==
    IF FrameRaises(data_out, update_fieldnames)
    THEN Cycle("ValueError", "none", framed, filtered, FALSE, data_out, None)
    ELSE Cycle("none", "table", framed, filtered, FALSE, data_out, update_fieldnames)

\* Connection.read, lines 114 to 123: the dispatch on the port.
Dispatch(port, update_fieldnames, framed, filtered) ==
    IF port = 9300
    THEN IF ProcessAdminRaises(filtered)
         THEN Cycle("IndexError", "none", framed, filtered,
                    check_system_messages(filtered), <<>>, None)
         ELSE Cycle("none", "table", framed, filtered,
                    check_system_messages(filtered), process_admin(filtered), None)
    ELSE IF port \in STREAM_PORTS /\ ~check_system_messages(filtered)
    THEN StreamTable(framed, filtered, process_stream(filtered), update_fieldnames)
    ELSE Cycle("none", "list", framed, filtered, check_system_messages(filtered),
               <<>>, None)

\* Connection.read, lines 112 to 123, on the framed messages.
Filter(port, update_fieldnames, framed) ==
    IF CheckErrorRaises(framed)
    THEN Cycle("IndexError", "none", framed, <<>>, FALSE, <<>>, None)
    ELSE Dispatch(port, update_fieldnames, framed, check_error(framed))

\* Connection.read once the receive loop has gathered msg.
ReadCycle(port, update_fieldnames, msg) ==
    Filter(port, update_fieldnames, Frame(msg))

\* socket.recv raising TimeoutError in Connection.read.
ReadTimeout ==
    [raised |-> "TimeoutError", kind |-> "none", framed |-> <<>>, filtered |-> <<>>,
     system |-> FALSE, messages |-> <<>>, rows |-> <<>>, columns |-> None]

\* ---------------------------------------------------- Connection objects

\* Connection.__init__: a new object on a new, unconnected socket.
\* sock is the socket's state: "new", "connected" or "closed".
Connection(port) ==
    [port |-> port, connected |-> FALSE, symbol |-> None,
     fundamental_fieldnames |-> Some(<<>>), update_fieldnames |-> Some(<<>>),
     sock |-> "new"]

\* The names under which the registry holds sessions.
NAMES == {"9300", "5009", "lookup", "historical", "L1_test"}

\* Service.__init__: the admin and the ghost level-1 object, not connected.
ServiceConnections ==
    [n \in NAMES |->
        IF n = "9300" THEN Some(Connection(9300))
        ELSE IF n = "5009" THEN Some(Connection(5009))
        ELSE None]

\* A call on the transport or on the pacer: what, on which session, the
\* state of that session's socket when it was made, and the text written.
Ev(what, name, sock, msg) == [ev |-> what, name |-> name, sock |-> sock, msg |-> msg]

\* What the transport answers to one recv: a chunk of bytes, the empty chunk
\* of a closed peer, or no data within the timeout.
Data(buf) == [timeout |-> FALSE, buf |-> buf]
Timeout == [timeout |-> TRUE, buf |-> <<>>]
EndOfStream == Data(<<>>)

\* --------------------------------------------------- running an operation

\* An operation is run on a record of the program's state: the objects, the
\* daemon's pending answers, the calls made so far, the exception raised
\* (exc, "none" while none is) and the value last returned (val). Every
\* step leaves the record alone once an exception is raised, which is how
\* the exception propagates out of the callers that do not catch it.
\* What an operation's accumulation loop did: the cycles its reads returned,
\* the rows it had accumulated when it ended, and how it ended.
NoNote == [cycles |-> <<>>, rows |-> <<>>, end |-> "none"]

World ==
    [connections |-> connections, svc_connected |-> svc_connected, wire |-> wire,
     refusals |-> refusals, queue |-> time_stamp_queue, now |-> now,
     admit |-> lastAdmit, events |-> <<>>, exc |-> "none", val |-> <<>>,
     msg |-> <<>>, note |-> NoNote]

Ok(w) == w.exc = "none"
Raise(w, e) == [w EXCEPT !.exc = e]
Obj(w, name) == w.connections[name].val
Log(w, what, name, msg) ==
    [w EXCEPT !.events = Append(@, Ev(what, name, Obj(w, name).sock, msg))]

\* socket.recv and socket.send raise OSError on a socket that is not
\* connected, and so does every call on a closed one.
SockRaises(c) == c.sock # "connected"

\* Connection.write
c_write(w, name, msg) ==
    IF ~Ok(w) THEN w
    ELSE IF SockRaises(Obj(w, name)) THEN Raise(Log(w, "send", name, msg), "OSError")
    ELSE Log(w, "send", name, msg)

\* The two bytes of the one character of the model that utf-8 encodes in
\* more than one byte, and that character.
LEAD_BYTE == "0xC3"
CONTINUATION_BYTE == "0xA9"
WIDE_CHAR == "U+00E9"

\* bytes.decode("utf-8") raises UnicodeDecodeError on a lead byte without
\* its continuation byte and on a continuation byte without its lead byte.
DecodeRaises(chunk) ==
    \E i \in 1..Len(chunk) :
        \/ chunk[i] = LEAD_BYTE /\ (i = Len(chunk) \/ chunk[i + 1] # CONTINUATION_BYTE)
        \/ chunk[i] = CONTINUATION_BYTE /\ (i = 1 \/ chunk[i - 1] # LEAD_BYTE)

\* bytes.decode("utf-8")
RECURSIVE decode(_)
decode(chunk) ==
    IF Len(chunk) = 0 THEN <<>>
    ELSE IF chunk[1] = LEAD_BYTE /\ Len(chunk) >= 2
    THEN <<WIDE_CHAR>> \o decode(SubSeq(chunk, 3, Len(chunk)))
    ELSE <<chunk[1]>> \o decode(Tail(chunk))

\* str.encode("utf-8")
RECURSIVE encode(_)
encode(text) ==
    IF Len(text) = 0 THEN <<>>
    ELSE (IF text[1] = WIDE_CHAR THEN <<LEAD_BYTE, CONTINUATION_BYTE>> ELSE <<text[1]>>)
         \o encode(Tail(text))

\* The daemon's next answer to a recv of the session; with nothing pending
\* the receive times out.
Answer(w, name) ==
    IF Len(w.wire[name]) = 0 THEN Timeout ELSE w.wire[name][1]

\* The answer is taken from the pending ones (the empty chunk of a closed
\* peer stays), decoded and appended to msg.
Take(w, name, resp) ==
    IF resp.timeout THEN Raise(w, "TimeoutError")
    ELSE IF DecodeRaises(resp.buf)
    THEN [w EXCEPT !.wire[name] = Tail(@), !.exc = "UnicodeDecodeError"]
    ELSE [w EXCEPT !.wire[name] = IF resp = EndOfStream THEN @ ELSE Tail(@),
                   !.msg = @ \o decode(resp.buf)]

\* self.connection.recv(1024).decode("utf-8")
Recv(w, name) == Take(Log(w, "recv", name, <<>>), name, Answer(w, name))

\* The peer has closed the stream: every further recv returns no byte.
AtEndOfStream(w, name) ==
    Len(w.wire[name]) > 0 /\ w.wire[name][1] = EndOfStream

\* Connection.read, lines 103 and 104: chunks are received until msg is empty
\* or ends in "\n". At the end of the stream a msg that does not end in
\* "\n" never changes and the loop never ends: NoReturn.
RECURSIVE RecvLoop(_, _)
RecvLoop(w, name) ==
    IF ~Ok(w) THEN w
    ELSE IF Len(w.msg) = 0 \/ w.msg[Len(w.msg)] = "\n" THEN w
    ELSE IF AtEndOfStream(w, name) THEN Raise(w, "NoReturn")
    ELSE RecvLoop(Recv(w, name), name)

\* The exception of the read, if any, is the operation's.
Raised(w) == [w EXCEPT !.exc = w.val.raised]

\* Connection.read, lines 106 to 123, on the msg received.
Deliver(w, name) ==
    IF w.exc = "TimeoutError" THEN [w EXCEPT !.val = ReadTimeout]
    ELSE IF ~Ok(w) THEN [w EXCEPT !.val = [ReadTimeout EXCEPT !.raised = w.exc]]
    ELSE Raised([w EXCEPT !.val = ReadCycle(Obj(w, name).port,
                                            Obj(w, name).update_fieldnames, w.msg)])

\* Connection.read
c_read(w, name) ==
    IF ~Ok(w) THEN w
    ELSE IF SockRaises(Obj(w, name)) THEN Raise(Log(w, "recv", name, <<>>), "OSError")
    ELSE Deliver(RecvLoop(Recv([w EXCEPT !.msg = <<>>], name), name), name)

\* The command texts.
PROTOCOL == "6.2"
MsgSetProtocol == <<"S", ",", "SET PROTOCOL", ",", PROTOCOL, "\r", "\n">>
MsgRequestFields(field_type) ==
    IF field_type = "F" THEN <<"S", ",", "REQUEST FUNDAMENTAL FIELDNAMES", "\r", "\n">>
    ELSE <<"S", ",", "REQUEST CURRENT UPDATE FIELDNAMES", "\r", "\n">>

\* Connection.set_protocol
set_protocol(w, name) == c_read(c_write(w, name, MsgSetProtocol), name)

\* Connection.check_startup raises IndexError at split_message[1]. Handed
\* the record set of a non-system cycle it iterates over the column labels,
\* none of which has a second token.
CheckStartupRaises(cycle) ==
    IF cycle.kind = "list"
    THEN \E i \in 1..Len(cycle.messages) : Len(Tokens(cycle.messages[i])) < 2
    ELSE ~cycle.columns.some \/ Len(cycle.columns.val) > 0

\* Connection.check_startup: is_connected.
check_startup(cycle) ==
    /\ cycle.kind = "list"
    /\ \E i \in 1..Len(cycle.messages) :
        Tokens(cycle.messages[i])[2] = Tok("SERVER CONNECTED")

RETURN_FIELDS == {Tok("FUNDAMENTAL FIELDNAMES"), Tok("CURRENT UPDATE FIELDNAMES")}

\* Connection.request_fieldnames: the messages its loop takes field names
\* from, and the value the loop leaves in field_names.
FieldMessages(messages) ==
    {i \in 1..Len(messages) :
        Len(Tokens(messages[i])) >= 3 /\ Tokens(messages[i])[2] \in RETURN_FIELDS}

FieldNames(cycle) ==
    IF cycle.kind # "list" \/ FieldMessages(cycle.messages) = {} THEN None
    ELSE LET t == Tokens(cycle.messages[Max(FieldMessages(cycle.messages))])
         IN Some(SubSeq(t, 3, Len(t)))

\* Connection.request_fieldnames, lines 365 to 375. Iterating over a record
\* set with default column labels (integers) raises AttributeError at
\* message.split.
FieldsOf(w) ==
    IF ~Ok(w) THEN w
    ELSE IF w.val.kind = "table" /\ ~w.val.columns.some /\ Width(w.val.rows) > 0
    THEN Raise(w, "AttributeError")
    ELSE [w EXCEPT !.val = FieldNames(w.val)]

\* Connection.request_fieldnames
request_fieldnames(w, name, field_type) ==
    FieldsOf(c_read(c_write(w, name, MsgRequestFields(field_type)), name))

\* socket.connect: OSError on a closed or an already connected socket,
\* ConnectionRefusedError while the daemon refuses.
t_connect(w, name) ==
    IF ~Ok(w) THEN w
    ELSE IF Obj(w, name).sock # "new" THEN Raise(Log(w, "connect", name, <<>>), "OSError")
    ELSE IF w.refusals > 0
    THEN [Log(w, "connect", name, <<>>) EXCEPT
            !.refusals = @ - 1, !.exc = "ConnectionRefusedError"]
    ELSE [Log(w, "connect", name, <<>>) EXCEPT !.connections[name].val.sock = "connected"]

\* Connection.connect, line 45: self._connected = self.check_startup(messages)
Startup(w, name) ==
    IF ~Ok(w) THEN w
    ELSE IF CheckStartupRaises(w.val) THEN Raise(w, "IndexError")
    ELSE [w EXCEPT !.connections[name].val.connected = check_startup(w.val)]

\* Connection.connect, lines 48 and 49: the assignments of the field names.
SetFundamental(w, name) ==
    IF ~Ok(w) THEN w
    ELSE [w EXCEPT !.connections[name].val.fundamental_fieldnames = w.val]

SetUpdate(w, name) ==
    IF ~Ok(w) THEN w
    ELSE [w EXCEPT !.connections[name].val.update_fieldnames = w.val]

\* Connection.connect, lines 47 to 49.
Fieldnames(w, name) ==
    IF Ok(w) /\ Obj(w, name).connected
    THEN SetUpdate(
           request_fieldnames(
             SetFundamental(request_fieldnames(w, name, "F"), name), name, "Q"),
           name)
    ELSE w

\* Connection.connect, the streaming ports: lines 42 to 49.
ConnectStream(w, name) ==
    Fieldnames(set_protocol(Startup(c_read(w, name), name), name), name)

\* A connect() that lets ConnectionRefusedError propagate.
ConnectedUncaught(w, name) ==
    IF ~Ok(w) THEN w
    ELSE IF Obj(w, name).port \in {9100, 9300}
    THEN set_protocol([w EXCEPT !.connections[name].val.connected = TRUE], name)
    ELSE IF Obj(w, name).port \in STREAM_PORTS THEN ConnectStream(w, name)
    ELSE [w EXCEPT !.connections[name].val.connected = FALSE]

\* Connection.connect after socket.connect: ConnectionRefusedError is
\* caught, the rest propagates.
Connected(w, name) ==
    IF w.exc = "ConnectionRefusedError" THEN [w EXCEPT !.exc = "none"]
    ELSE IF ~Ok(w) THEN w
    ELSE IF Obj(w, name).port \in {9100, 9300}
    THEN set_protocol([w EXCEPT !.connections[name].val.connected = TRUE], name)
    ELSE IF Obj(w, name).port \in STREAM_PORTS THEN ConnectStream(w, name)
    ELSE [w EXCEPT !.connections[name].val.connected = FALSE]

\* Connection.connect
connect(w, name) ==
    IF ~Ok(w) THEN w ELSE Connected(t_connect(w, name), name)

\* A disconnect that closes the socket and leaves the flag as it was.
DisconnectKeepsFlag(w, name) ==
    IF ~Ok(w) THEN w
    ELSE [Log(w, "close", name, <<>>) EXCEPT !.connections[name].val.sock = "closed"]

\* Connection.disconnect
disconnect(w, name) ==
    IF ~Ok(w) THEN w
    ELSE [Log(w, "close", name, <<>>) EXCEPT
            !.connections[name].val.sock = "closed",
            !.connections[name].val.connected = FALSE]

\* A method that returns None.
ReturnNone(w) == [w EXCEPT !.val = <<>>]

\* f"{self._symbol}": the text of the active symbol, None before any is set.
SymbolText(c) == IF c.symbol.some THEN c.symbol.val ELSE <<"None">>

\* The command texts of the symbol methods.
MsgWatch(c) ==
    IF c.port = 5009 THEN <<"w">> \o SymbolText(c) \o <<"\r", "\n">>
    ELSE <<"WOR", ",">> \o SymbolText(c) \o <<"\r", "\r", "\n">>
MsgWatchInterval(c, interval) ==
    <<"BW", ",">> \o SymbolText(c) \o <<",", interval, ",", ",", "7">>
MsgWatchTrades(c) == <<"t">> \o SymbolText(c) \o <<"\r", "\n">>
MsgTerminate(c) ==
    IF c.port = 5009 THEN <<"r">> \o SymbolText(c) \o <<"\r", "\n">>
    ELSE <<"ROR", ",">> \o SymbolText(c) \o <<"\r", "\r", "\n">>
MsgRefresh(c) == <<"f">> \o SymbolText(c) \o <<"\r", "\n">>
MsgSelectFields(fieldnames) ==
    <<"S", ",", "SELECT UPDATE FIELDS", ",">> \o CSV(fieldnames) \o <<"\r", "\n">>

\* self._symbol = symbol
SetSymbol(w, name, symbol) ==
    IF ~Ok(w) THEN w ELSE [w EXCEPT !.connections[name].val.symbol = Some(symbol)]

\* self.write(msg) in symbol_watch and symbol_terminate: msg is bound on the
\* level-1 and the level-2 port only; on another port the call raises
\* UnboundLocalError.
WriteBound(w, name, msg) ==
    IF ~Ok(w) THEN w
    ELSE IF Obj(w, name).port \notin STREAM_PORTS THEN Raise(w, "UnboundLocalError")
    ELSE c_write(w, name, msg)

\* Connection.symbol_watch, lines 146 to 155.
WatchWrite(w, name) == WriteBound(w, name, MsgWatch(Obj(w, name)))

\* Connection.symbol_watch: the value of request_fieldnames is not used.
symbol_watch(w, name, symbol) ==
    ReturnNone(request_fieldnames(WatchWrite(SetSymbol(w, name, symbol), name), name, "Q"))

\* Connection.symbol_watch_interval
IntervalWrite(w, name, interval) ==
    c_write(w, name, MsgWatchInterval(Obj(w, name), interval))

symbol_watch_interval(w, name, symbol, interval) ==
    ReturnNone(
      request_fieldnames(IntervalWrite(SetSymbol(w, name, symbol), name, interval),
                         name, "Q"))

\* Connection.symbol_watch_trades
TradesWrite(w, name) == c_write(w, name, MsgWatchTrades(Obj(w, name)))

symbol_watch_trades(w, name, symbol) ==
    ReturnNone(request_fieldnames(TradesWrite(SetSymbol(w, name, symbol), name), name, "Q"))

\* Connection.symbol_terminate
symbol_terminate(w, name) ==
    ReturnNone(WriteBound(w, name, MsgTerminate(Obj(w, name))))

\* Connection.symbol_refresh
symbol_refresh(w, name) == ReturnNone(c_write(w, name, MsgRefresh(Obj(w, name))))

\* Connection.select_fieldnames, lines 391 to 396, for one message:
\* split_message[1] raises IndexError on a message of one token, and
\* split_message[2] on a confirmation without field names, after the schema
\* has been assigned.
SelectMessage(w, name, tokens) ==
    IF Len(tokens) < 2 THEN Raise(w, "IndexError")
    ELSE IF tokens[2] # Tok("CURRENT UPDATE FIELDNAMES") THEN w
    ELSE IF Len(tokens) < 3
    THEN [w EXCEPT !.connections[name].val.update_fieldnames = Some(<<>>),
                   !.exc = "IndexError"]
    ELSE [w EXCEPT !.connections[name].val.update_fieldnames =
                        Some(SubSeq(tokens, 3, Len(tokens))),
                   !.connections[name].val.symbol = Some(tokens[3])]

\* Connection.select_fieldnames: the loop of line 390 over a list.
RECURSIVE SelectLoop(_, _, _)
SelectLoop(w, name, messages) ==
    IF ~Ok(w) \/ Len(messages) = 0 THEN w
    ELSE SelectLoop(SelectMessage(w, name, Tokens(messages[1])), name, Tail(messages))

\* Connection.select_fieldnames, line 390, on the value read. Iterating over
\* a record set gives its column labels: a field name has no second token
\* (IndexError), a default label is an integer (AttributeError).
SelectCycle(w, name) ==
    IF ~Ok(w) THEN w
    ELSE IF w.val.kind = "list" THEN SelectLoop(w, name, w.val.messages)
    ELSE IF w.val.columns.some /\ Len(w.val.columns.val) > 0 THEN Raise(w, "IndexError")
    ELSE IF ~w.val.columns.some /\ Width(w.val.rows) > 0 THEN Raise(w, "AttributeError")
    ELSE w

\* Connection.select_fieldnames
select_fieldnames(w, name, fieldnames) ==
    ReturnNone(
      SelectCycle(c_read(c_write(w, name, MsgSelectFields(fieldnames)), name), name))

\* The methods that begin a watch.
WATCHES == {"symbol_watch", "symbol_watch_interval", "symbol_watch_trades"}

\* The paginated queries.
QUERIES ==
    {"lookup_security_types", "lookup_market_types", "lookup_symbol", "query_historical"}

\* Before the first operation: nothing was called, no query has returned,
\* no symbol is watched.
NoRet ==
    [op |-> <<"init">>, exc |-> "none", val |-> <<>>, note |-> NoNote,
     pending |-> <<>>, watched |-> None,
     prev |-> [op |-> <<"init">>, exc |-> "none", val |-> <<>>, note |-> NoNote]]

\* The symbol of the session's last symbol_watch call, None when another
\* watch was begun after it.
Watched(op) ==
    IF op[1] = "symbol_watch" THEN Some(op[3])
    ELSE IF op[1] \in WATCHES THEN None
    ELSE ret.watched

\* The variables after an operation that ran from World to w.
Commit(w, op) ==
    /\ connections' = w.connections
    /\ svc_connected' = w.svc_connected
    /\ wire' = w.wire
    /\ refusals' = w.refusals
    /\ time_stamp_queue' = w.queue
    /\ now' = w.now
    /\ lastAdmit' = w.admit
    /\ events' = w.events
    /\ ret' = [op |-> op, exc |-> w.exc, val |-> w.val, note |-> w.note, pending |-> wire,
               watched |-> Watched(op),
               prev |-> IF ret.op[1] \in QUERIES
                        THEN [op |-> ret.op, exc |-> ret.exc, val |-> ret.val,
                              note |-> ret.note]
                        ELSE ret.prev]
    /\ UNCHANGED contexts

\* connections[name].read(), called by the user of the registry.
Read(name) ==
    /\ connections[name].some
    /\ Commit(c_read(World, name), <<"read", name>>)

\* connections[name].request_fieldnames(field_type), called by the user of
\* the session.
RequestFieldnames(name, field_type) ==
    /\ connections[name].some
    /\ Commit(request_fieldnames(World, name, field_type),
              <<"request_fieldnames", name, field_type>>)

\* connections[name].connect(), called by the owner of the object.
Connect(name) ==
    /\ connections[name].some
    /\ Commit(connect(World, name), <<"connect", name>>)

\* connections[name].disconnect(), called by the owner of the object.
Disconnect(name) ==
    /\ connections[name].some
    /\ Commit(disconnect(World, name), <<"disconnect", name>>)

\* The symbol methods and select_fieldnames, called by the user of the
\* session.
SymbolWatch(name, symbol) ==
    /\ connections[name].some
    /\ Commit(symbol_watch(World, name, symbol), <<"symbol_watch", name, symbol>>)

SymbolWatchInterval(name, symbol, interval) ==
    /\ connections[name].some
    /\ Commit(symbol_watch_interval(World, name, symbol, interval),
              <<"symbol_watch_interval", name, symbol>>)

SymbolWatchTrades(name, symbol) ==
    /\ connections[name].some
    /\ Commit(symbol_watch_trades(World, name, symbol),
              <<"symbol_watch_trades", name, symbol>>)

SymbolTerminate(name) ==
    /\ connections[name].some
    /\ Commit(symbol_terminate(World, name), <<"symbol_terminate", name>>)

SymbolRefresh(name) ==
    /\ connections[name].some
    /\ Commit(symbol_refresh(World, name), <<"symbol_refresh", name>>)

SelectFieldnames(name, fieldnames) ==
    /\ connections[name].some
    /\ Commit(select_fieldnames(World, name, fieldnames),
              <<"select_fieldnames", name, fieldnames>>)

\* No session has anything pending; the daemon accepts connections.
QuietDaemon ==
    /\ wire = [n \in NAMES |-> <<>>]
    /\ refusals = 0

\* ------------------------------------------------------------ RequestPacer

REQUEST_LIMIT == 50

\* The number of entries of q that are less than one second old at time t.
Fresh(q, t) == Cardinality({k \in 1..Len(q) : t - q[k] < TicksPerSecond})

\* range(-1, -len(q), -1): the positions the loop visits, newest first,
\* as 1-based positions; the oldest entry (position 1) is never visited.
VisitedOld(q, t) == {k \in 2..Len(q) : t - q[k] >= TicksPerSecond}

\* The position at which the loop breaks: the newest visited entry that is
\* at least one second old (0 when the loop runs to its end).
BreakAt(q, t) ==
    IF VisitedOld(q, t) = {} THEN 0
    ELSE CHOOSE k \in VisitedOld(q, t) : \A j \in VisitedOld(q, t) : j <= k

\* self._time_stamp_queue[i:] at the break position.
Truncated(q, t) ==
    IF BreakAt(q, t) = 0 THEN q ELSE SubSeq(q, BreakAt(q, t), Len(q))

\* Whether the call reaches time.sleep(1).
Sleeps(q, t) ==
    BreakAt(q, t) # 0 /\ Len(Truncated(q, t)) >= REQUEST_LIMIT

\* The threads that may be inside check_requests() on the one Service.
CONTEXTS == {"t1", "t2"}

\* A thread outside check_requests().
Outside == [pc |-> "outside", n |-> 0, i |-> 0, tmp |-> <<>>, calls |-> 0]

\* Service.check_requests
check_requests ==
    /\ Len(time_stamp_queue) < MaxQueue
    /\ LET q == time_stamp_queue
           slept == Sleeps(q, now)
           t2 == IF slept THEN now + TicksPerSecond ELSE now
       IN /\ now' = t2
          /\ time_stamp_queue' = Append(Truncated(q, now), t2)
          /\ lastAdmit' = [fresh |-> Fresh(q, now), before |-> Len(q),
                           truncated |-> BreakAt(q, now) # 0, slept |-> slept]
    /\ UNCHANGED svcVars
    /\ UNCHANGED contexts

\* Time passes between two calls.
Tick ==
    /\ now < MaxTime
    /\ now' = now + 1
    /\ UNCHANGED <<time_stamp_queue, lastAdmit>>
    /\ UNCHANGED svcVars
    /\ UNCHANGED contexts

PacerInit ==
    /\ time_stamp_queue = <<>>
    /\ now = 0
    /\ lastAdmit = [fresh |-> 0, before |-> 0, truncated |-> FALSE, slept |-> FALSE]
    /\ contexts = [c \in CONTEXTS |-> Outside]

PacerNext == check_requests \/ Tick

\* A fresh Service whose daemon stays silent: only the window and the clock move.
FreshService ==
    /\ PacerInit
    /\ connections = ServiceConnections /\ svc_connected = FALSE
    /\ QuietDaemon
    /\ events = <<>> /\ ret = NoRet

SpecPacer == FreshService /\ [][PacerNext]_vars

\* C1: whenever the window already holds at least REQUEST_LIMIT timestamps
\* less than one second old, the next check_requests() call sleeps before it
\* appends its own timestamp.
C1_SaturationBlocks ==
    lastAdmit.fresh >= REQUEST_LIMIT => lastAdmit.slept

\* The call does reach the sleep in some run.
PacerSleepReached == lastAdmit.slept

\* The time at which the last check_requests() call examined the window: its
\* own timestamp, less the second it slept.
AdmitTime ==
    time_stamp_queue[Len(time_stamp_queue)]
        - (IF lastAdmit.slept THEN TicksPerSecond ELSE 0)

\* C22: after every check_requests() call the window holds the new timestamp
\* and, besides it, only timestamps less than one second old at the call.
C22_WindowTrailingSecond ==
    Len(time_stamp_queue) > 0 =>
        \A k \in 1..(Len(time_stamp_queue) - 1) :
            AdmitTime - time_stamp_queue[k] < TicksPerSecond

\* ------------------------------------------- check_requests, thread by thread

\* check_requests() takes no lock: between two of its statements, and between
\* the load and the store of one statement, another thread may run.

\* Each thread calls check_requests() at most this many times.
MaxCalls == 2

\* What a step of a thread leaves alone.
StepFrame ==
    /\ UNCHANGED lastAdmit
    /\ UNCHANGED svcVars

\* for i in range(-1, -len(self._time_stamp_queue), -1): the range is built
\* once, from the length of the window at that moment.
Range(c) ==
    /\ contexts[c].pc = "outside"
    /\ contexts[c].calls < MaxCalls
    /\ contexts' = [contexts EXCEPT ![c] = [@ EXCEPT !.pc = "for",
                        !.n = Len(time_stamp_queue), !.i = 1, !.calls = @ + 1]]
    /\ UNCHANGED <<time_stamp_queue, now>>
    /\ StepFrame

\* One pass of the loop: self._time_stamp_queue[i] is read from the window
\* as it is now (i counts back from the end: the source's i is -i here).
Visit(c) ==
    /\ contexts[c].pc = "for"
    /\ LET i == contexts[c].i
           q == time_stamp_queue
       IN contexts' = [contexts EXCEPT ![c] =
              IF i >= contexts[c].n THEN [@ EXCEPT !.pc = "append"]
              ELSE IF i > Len(q) THEN [@ EXCEPT !.pc = "IndexError"]
              ELSE IF now - q[Len(q) - i + 1] >= TicksPerSecond
                   THEN [@ EXCEPT !.pc = "slice"]
              ELSE [@ EXCEPT !.i = i + 1]]
    /\ UNCHANGED <<time_stamp_queue, now>>
    /\ StepFrame

\* q[i:] for a negative i: the last -i entries, the whole list when it is shorter.
Slice(q, i) == SubSeq(q, IF i >= Len(q) THEN 1 ELSE Len(q) - i + 1, Len(q))

\* The right-hand side of self._time_stamp_queue = self._time_stamp_queue[i:]:
\* a new list built from the window as it is now.
LoadSlice(c) ==
    /\ contexts[c].pc = "slice"
    /\ contexts' = [contexts EXCEPT ![c] = [@ EXCEPT !.pc = "store",
                        !.tmp = Slice(time_stamp_queue, contexts[c].i)]]
    /\ UNCHANGED <<time_stamp_queue, now>>
    /\ StepFrame

\* The store of that statement, then the limit test, the sleep and the break.
StoreSlice(c) ==
    /\ contexts[c].pc = "store"
    /\ time_stamp_queue' = contexts[c].tmp
    /\ now' = IF Len(contexts[c].tmp) >= REQUEST_LIMIT THEN now + TicksPerSecond ELSE now
    /\ contexts' = [contexts EXCEPT ![c] = [@ EXCEPT !.pc = "append", !.tmp = <<>>]]
    /\ StepFrame

\* self._time_stamp_queue.append(datetime.now()), and the return.
AppendNow(c) ==
    /\ contexts[c].pc = "append"
    /\ time_stamp_queue' = Append(time_stamp_queue, now)
    /\ contexts' = [contexts EXCEPT ![c] = [@ EXCEPT !.pc = "outside", !.n = 0, !.i = 0]]
    /\ UNCHANGED now
    /\ StepFrame

ConcurrentNext ==
    \/ \E c \in CONTEXTS : Range(c)
    \/ \E c \in CONTEXTS : Visit(c)
    \/ \E c \in CONTEXTS : LoadSlice(c)
    \/ \E c \in CONTEXTS : StoreSlice(c)
    \/ \E c \in CONTEXTS : AppendNow(c)
    \/ Tick

SpecConcurrent == FreshService /\ [][ConcurrentNext]_vars

\* How many entries of q equal v.
Occurrences(q, v) == Cardinality({k \in 1..Len(q) : q[k] = v})

\* C33: with two threads inside check_requests() on the same Service, no step
\* takes out of the window a timestamp that is less than one second old: the
\* timestamps of both calls are in the window when both have returned.
C33_NoTimestampLost ==
    [][\A k \in 1..Len(time_stamp_queue) :
          now - time_stamp_queue[k] < TicksPerSecond =>
              Occurrences(time_stamp_queue', time_stamp_queue[k])
                  >= Occurrences(time_stamp_queue, time_stamp_queue[k])]_vars

\* --------------------------------------------------------------- Service

\* Service.check_requests, called by an operation of the Service.
admit(w) ==
    IF ~Ok(w) THEN w
    ELSE LET slept == Sleeps(w.queue, w.now)
             t2 == IF slept THEN w.now + TicksPerSecond ELSE w.now
         IN [w EXCEPT
               !.events = Append(@, [ev |-> "admit", name |-> "", sock |-> "", msg |-> <<>>]),
               !.queue = Append(Truncated(w.queue, w.now), t2),
               !.now = t2,
               !.admit = [fresh |-> Fresh(w.queue, w.now), before |-> Len(w.queue),
                          truncated |-> BreakAt(w.queue, w.now) # 0, slept |-> slept]]

\* A registry that calls connect() on the object it holds when that object
\* is not connected.
ConnectionReused(w, port, name) ==
    IF ~Ok(w) THEN w
    ELSE IF ~w.connections[name].some
    THEN connect([w EXCEPT !.connections[name] = Some(Connection(port))], name)
    ELSE IF ~Obj(w, name).connected THEN connect(w, name)
    ELSE w

\* Service.connection
connection(w, port, name) ==
    IF ~Ok(w) THEN w
    ELSE IF ~w.connections[name].some \/ ~Obj(w, name).connected
    THEN connect([w EXCEPT !.connections[name] = Some(Connection(port))], name)
    ELSE w

MSG_DISCONNECT == Tok("Not Connected")
\* The column of the STATS row health_check inspects: iloc[-1, 13].
STATUS_COLUMN == 14

\* Service.health_check: msg_frame.iloc[-1, 13] raises IndexError when the
\* record set has columns, but fewer than 14.
HealthRaises(rows) == Width(rows) > 0 /\ Width(rows) < STATUS_COLUMN

\* Service.health_check: the condition of lines 190 to 194.
SaysDisconnected(rows) ==
    /\ Width(rows) > 0
    /\ Len(rows[Len(rows)]) >= STATUS_COLUMN
    /\ rows[Len(rows)][STATUS_COLUMN] = MSG_DISCONNECT

\* Service.health_check, lines 190 to 200, on the cycle read.
Health(w) ==
    IF ~Ok(w) THEN w
    ELSE IF HealthRaises(w.val.rows) THEN Raise(w, "IndexError")
    ELSE [w EXCEPT !.svc_connected = ~SaysDisconnected(w.val.rows),
                   !.val = ~SaysDisconnected(w.val.rows)]

\* Service.health_check
health_check(w) ==
    IF ~Ok(w) THEN w
    ELSE IF w.connections["9300"].some /\ Obj(w, "9300").connected
    THEN Health(c_read(w, "9300"))
    ELSE [w EXCEPT !.svc_connected = FALSE, !.val = FALSE]

\* The iterations the 30 seconds of launch's connect loop allow.
MaxLaunchTries == 2

MsgClientStats == <<"S", ",", "CLIENTSTATS ON", "\r", "\n">>
MsgConnect == <<"S", ",", "CONNECT", "\r", "\n">>

\* Service.launch: the loop of lines 105 to 108.
RECURSIVE LaunchLoop(_, _)
LaunchLoop(w, tries) ==
    IF ~Ok(w) \/ w.svc_connected \/ tries = 0 THEN w
    ELSE LaunchLoop(health_check(connect(w, "9300")), tries - 1)

\* Service.launch, lines 89 to 99: the daemon is started unless the
\* registry's flag is set.
Popen(w) ==
    IF w.svc_connected THEN w
    ELSE [w EXCEPT !.events = Append(@,
             [ev |-> "popen", name |-> "", sock |-> "", msg |-> <<>>])]

\* Service.launch, lines 110 to 127.
Announce(w) ==
    IF ~Ok(w) \/ ~w.svc_connected THEN w
    ELSE connect(
           c_read(c_write(c_read(c_write(w, "9300", MsgClientStats), "9300"),
                          "9300", MsgConnect), "9300"),
           "5009")

\* Service.launch
launch(w) == ReturnNone(Announce(LaunchLoop(Popen(w), MaxLaunchTries)))

\* Service.shutdown: every object of the registry is disconnected.
RECURSIVE DisconnectAll(_, _)
DisconnectAll(w, names) ==
    IF names = {} THEN w
    ELSE LET n == CHOOSE x \in names : TRUE
         IN DisconnectAll(IF w.connections[n].some THEN disconnect(w, n) ELSE w,
                          names \ {n})

shutdown(w) == ReturnNone(DisconnectAll(w, NAMES))

\* ------------------------------------------------------- paginated query

SENTINEL == <<"!ENDMSG!", ",", "\r">>

\* The row a query makes of one message (lines 285 to 298): row is the
\* token list it appends; raised, that split_message[0] was read from an
\* empty list (IndexError).
Normalize(message, request_id, marker) ==
    LET t0 == Tokens(message)
        t1 == IF t0[Len(t0)] = Tok("\r") THEN SubSeq(t0, 1, Len(t0) - 1) ELSE t0
        t2 == IF Len(t1) > 0 /\ t1[1] = request_id THEN Tail(t1) ELSE t1
        t3 == IF Len(t2) > 0 /\ t2[1] = marker THEN Tail(t2) ELSE t2
    IN [raised |-> Len(t1) = 0 \/ Len(t2) = 0, row |-> t3]

\* The for loop over one cycle's messages: the rows after it, whether it met
\* the sentinel, whether it raised.
RECURSIVE ScanCycle(_, _, _, _)
ScanCycle(messages, request_id, marker, acc) ==
    IF Len(messages) = 0 THEN [rows |-> acc, stop |-> FALSE, raised |-> FALSE]
    ELSE IF messages[1] = SENTINEL THEN [rows |-> acc, stop |-> TRUE, raised |-> FALSE]
    ELSE IF messages[1] = <<>>
    THEN ScanCycle(Tail(messages), request_id, marker, acc)
    ELSE IF Normalize(messages[1], request_id, marker).raised
    THEN [rows |-> acc, stop |-> FALSE, raised |-> TRUE]
    ELSE ScanCycle(Tail(messages), request_id, marker,
                   Append(acc, Normalize(messages[1], request_id, marker).row))

\* The while loop of a query, after the for loop over a cycle: it ends at the
\* sentinel; end "spin" stands for the loop that never ends, reading an
\* ended stream.
RECURSIVE QueryLoop(_, _, _, _, _)
Continue(w, name, request_id, marker, scan) ==
    IF scan.raised
    THEN [w EXCEPT !.exc = "IndexError", !.note.rows = scan.rows, !.note.end = "raised"]
    ELSE IF scan.stop
    THEN [w EXCEPT !.note.rows = scan.rows, !.note.end = "sentinel"]
    ELSE IF AtEndOfStream(w, name)
    THEN [w EXCEPT !.exc = "NoReturn", !.note.rows = scan.rows, !.note.end = "spin"]
    ELSE QueryLoop(w, name, request_id, marker, scan.rows)

\* The while loop of a query, after a read: a TimeoutError ends it, any
\* other exception propagates, a cycle is scanned.
Scanned(w, name, request_id, marker, acc) ==
    IF w.exc = "TimeoutError"
    THEN [w EXCEPT !.exc = "none", !.note.rows = acc, !.note.end = "timeout"]
    ELSE IF ~Ok(w) THEN [w EXCEPT !.note.rows = acc, !.note.end = "raised"]
    ELSE Continue([w EXCEPT !.note.cycles = Append(@, w.val.messages)],
                  name, request_id, marker,
                  ScanCycle(w.val.messages, request_id, marker, acc))

\* The while loop of a query.
QueryLoop(w, name, request_id, marker, acc) ==
    IF ~Ok(w) THEN w
    ELSE Scanned(c_read(w, name), name, request_id, marker, acc)

\* pd.DataFrame(rows, columns=col_names), returned by the query.
Table(w, col_names) ==
    IF ~Ok(w) THEN w
    ELSE IF FrameRaises(w.note.rows, Some(col_names)) THEN Raise(w, "ValueError")
    ELSE [w EXCEPT !.val = [rows |-> w.note.rows, columns |-> col_names]]

\* The request text: the command, then the request id when one is given.
Request(command, request_id) ==
    IF request_id = <<>> THEN <<command, "\r", "\n">>
    ELSE <<command, ",">> \o request_id \o <<"\r", "\n">>

\* del col_names[0] when no request id is given.
Columns(col_names, request_id) ==
    IF request_id = <<>> THEN Tail(col_names) ELSE col_names

\* The end of a query: the session is disconnected, the record set built.
Finish(w, name, col_names) ==
    IF ~Ok(w) THEN w ELSE Table(disconnect(w, name), col_names)

\* The body the three lookups share: lines 243 to 303.
Lookup(w, msg_req, request_id, col_names) ==
    Finish(QueryLoop(c_write(admit(connection(w, 9100, "lookup")), "lookup", msg_req),
                     "lookup", request_id, Tok("LS"), <<>>),
           "lookup", Columns(col_names, request_id))

SEC_TYPE_COLUMNS == <<"request_id", "sec_type_id", "short_name", "long_name">>
MKT_TYPE_COLUMNS ==
    <<"request_id", "listed_market_id", "short_name", "long_name", "group_id",
      "short_group_name">>
SYMBOL_COLUMNS == <<"request_id", "symbol", "listed_market_id", "sec_type_id", "description">>

\* Service.lookup_security_types
lookup_security_types(w, request_id) ==
    Lookup(w, Request("SST", request_id), request_id, SEC_TYPE_COLUMNS)

\* Service.lookup_market_types
lookup_market_types(w, request_id) ==
    Lookup(w, Request("SLM", request_id), request_id, MKT_TYPE_COLUMNS)

\* Service.lookup_symbol, called with one filter or none and no symbol_root.
lookup_symbol(w, search_str, filter_type, filter_value, request_id) ==
    Lookup(w,
           <<"SBF", ",", "s", ",", search_str, ",">> \o filter_type \o <<",">>
               \o filter_value \o <<",">> \o request_id \o <<"\r", "\n">>,
           request_id, SYMBOL_COLUMNS)

TRADE_COLUMNS ==
    <<"time_stamp", "last", "last_size", "total_volume", "bid", "ask", "tick_id",
      "basis_for_last", "trade_market_center", "trade_conditions", "trade_aggressor",
      "day_code">>
INTERVAL_COLUMNS ==
    <<"time_stamp", "high", "low", "open", "close", "total_volume", "period_volume",
      "number_of_trades">>

MsgHistorical(symbol, query_type) ==
    IF query_type = "trades"
    THEN <<"HTT", ",", symbol, ",", ",", "time_end", ",", ",", ",", ",", ",", ",",
           "1024", "\r", "\n">>
    ELSE <<"HIT", ",", symbol, ",", "60", ",", ",", "time_end", ",", ",", ",", ",", ",",
           ",", "1024", "\r", "\n">>

\* Service.query_historical, for query_type "trades" or "interval".
query_historical(w, symbol, query_type) ==
    Finish(QueryLoop(c_write(admit(connection(w, 9100, "historical")), "historical",
                             MsgHistorical(symbol, query_type)),
                     "historical", <<>>, Tok("LH"), <<>>),
           "historical", IF query_type = "trades" THEN TRADE_COLUMNS ELSE INTERVAL_COLUMNS)

\* ------------------------------------------- one read cycle, any content

\* The number of messages in one buffer of SpecCycle.
MaxCycleMsgs == 3

\* All sequences over S of length at most n.
SeqsUpTo(S, n) == UNION {[1..k -> S] : k \in 0..n}

CycleMessages ==
    { CSV(<<"S", "X">>), CSV(<<"E", "bad thing">>), CSV(<<"S", "Y">>),
      CSV(<<"Q", "AAPL", "100", "99", "101", "\r">>), CSV(<<"E", "worse">>),
      CSV(<<"Q", "MSFT", "7", "\r">>), <<"E">> }

CycleSchemas ==
    { Some(<<Tok("Last"), Tok("Bid"), Tok("Ask")>>),
      Some(<<Tok("Symbol"), Tok("Last"), Tok("Bid"), Tok("Ask")>>),
      Some(<<>>), None }

CyclePorts == {5009, 9200, 9100, 9300}

\* A connected session of any port and schema, as connect() or
\* select_fieldnames() can leave it (connect() leaves the schema empty when
\* the handshake fails and None when request_fieldnames finds no field
\* names), and the buffer the daemon sends it.
CycleInit ==
    /\ PacerInit
    /\ \E port \in CyclePorts, schema \in CycleSchemas :
        connections = [n \in NAMES |->
            IF n = "L1_test"
            THEN Some([Connection(port) EXCEPT !.connected = TRUE, !.sock = "connected",
                                               !.update_fieldnames = schema])
            ELSE None]
    /\ \E messages \in SeqsUpTo(CycleMessages, MaxCycleMsgs) :
        wire = [n \in NAMES |-> IF n = "L1_test" THEN <<Data(Lines(messages))>> ELSE <<>>]
    /\ refusals = 0
    /\ svc_connected = FALSE
    /\ events = <<>>
    /\ ret = NoRet

CycleNext == Read("L1_test")

SpecCycle == CycleInit /\ [][CycleNext]_vars

\* The last operation was a read that went as far as classifying a cycle.
ReadDone == ret.op[1] = "read" /\ ret.exc \in {"none", "ValueError"}

\* The last operation was a read that returned.
Returned == ret.op[1] = "read" /\ ret.exc = "none"

\* C3: no message whose first token is E is in the sequence a read cycle
\* returns to its caller, and the others keep their relative order.
C3_NoErrorReturned ==
    (Returned /\ ret.val.kind = "list") =>
        \A i \in 1..Len(ret.val.messages) :
            Tokens(ret.val.messages[i])[1] # Tok("E")

\* The positions of the update (Q) messages of the filtered cycle.
QPositions(cycle) ==
    {i \in 1..Len(cycle.filtered) : Tokens(cycle.filtered[i])[1] = Tok("Q")}

\* The position of the k-th update message.
QPosition(cycle, k) ==
    CHOOSE i \in QPositions(cycle) :
        Cardinality({j \in QPositions(cycle) : j <= i}) = k

\* The projection ran: a streaming port, a cycle with no system message.
Projected ==
    /\ ReadDone
    /\ connections[ret.op[2]].val.port \in STREAM_PORTS
    /\ ~ret.val.system

C14_NoProjectionWithoutSchema ==
    ( /\ Returned
      /\ connections[ret.op[2]].val.port \in STREAM_PORTS
      /\ ret.val.kind = "table" /\ Len(ret.val.rows) > 0 )
    => /\ connections[ret.op[2]].val.update_fieldnames.some
       /\ connections[ret.op[2]].val.update_fieldnames.val # <<>>

\* C18: on a streaming port a read that returns gives, when the
\* error-filtered cycle has no message with first token S, a record set
\* whose labels are the session's update schema, and otherwise the filtered
\* messages as they are.
C18_StreamDispatch ==
    (Returned /\ connections[ret.op[2]].val.port \in STREAM_PORTS) =>
        /\ ret.val.kind \in {"list", "table"}
        /\ IF \E i \in 1..Len(ret.val.filtered) :
                  Tokens(ret.val.filtered[i])[1] = Tok("S")
           THEN ret.val.kind = "list" /\ ret.val.messages = ret.val.filtered
           ELSE /\ ret.val.kind = "table"
                /\ connections[ret.op[2]].val.update_fieldnames.some
                /\ ret.val.columns = connections[ret.op[2]].val.update_fieldnames

\* The positions of the E messages in the framed cycle of the last read.
EPositions ==
    {i \in 1..Len(ret.val.framed) : Tokens(ret.val.framed[i])[1] = Tok("E")}

\* The last operation was a read whose check_error ran to its return: every
\* E message had the second token that line 261 logs.
ErrorsChecked ==
    /\ ret.op[1] = "read"
    /\ ret.exc \in {"none", "ValueError", "IndexError"}
    /\ \A i \in EPositions : Len(Tokens(ret.val.framed[i])) >= 2

MaxStartupMsgs == 4

StartupMessages ==
    { CSV(<<"S", "KEY", "k1">>), CSV(<<"S", "SERVER CONNECTED">>), CSV(<<"S", "IP", "ip1">>),
      CSV(<<"S", "CUST", "c1">>), CSV(<<"S", "KEYOK">>),
      <<"S", ",", "SERVER CONNECTED", "\r">>, <<>> }

ProtocolReply == Data(Lines(<<CSV(<<"S", "CURRENT PROTOCOL", PROTOCOL>>)>>))
FundamentalReply ==
    Data(Lines(<<CSV(<<"S", "FUNDAMENTAL FIELDNAMES", "Symbol", "PE">>)>>))
UpdateReply ==
    Data(Lines(<<CSV(<<"S", "CURRENT UPDATE FIELDNAMES", "Symbol", "Last">>)>>))

\* The timestamp message a level-1 session receives every second.
TimestampCycle == Data(Lines(<<CSV(<<"T", "20240102 09:30:00">>)>>))

\* The startup messages that arrive after the first read cycle has ended.
LateStartup ==
    Lines(<<CSV(<<"S", "SERVER CONNECTED">>), CSV(<<"S", "CUST", "c1">>),
            CSV(<<"S", "KEYOK">>)>>)

\* What the daemon answers after the first cycle: the replies to the three
\* requests, all or some, after the rest of the startup messages or not; the
\* rest of the startup is a cycle of its own or is received together with
\* the protocol reply.
ConnectTails ==
    { <<ProtocolReply, FundamentalReply, UpdateReply>>,
      <<ProtocolReply, FundamentalReply, TimestampCycle>>,
      <<ProtocolReply, FundamentalReply>>,
      <<Data(LateStartup), ProtocolReply, FundamentalReply, UpdateReply>>,
      <<Data(LateStartup \o ProtocolReply.buf), FundamentalReply, UpdateReply>>,
      <<>> }

ConnectPorts == {5009, 9200, 9100, 9300}

\* The port, the daemon's refusals and the startup cycle: every startup
\* cycle on the level-1 port of a daemon that accepts, and the short ones
\* on every port, refused once or not.
ConnectCases ==
    {[port |-> 5009, refusals |-> 0, startup |-> s] :
        s \in SeqsUpTo(StartupMessages, MaxStartupMsgs)}
    \cup {[port |-> p, refusals |-> r, startup |-> s] :
            p \in ConnectPorts, r \in {0, 1}, s \in SeqsUpTo(StartupMessages, 1)}

\* A new object, as in test_02_connect, and the daemon's answers.
ConnectInit ==
    /\ PacerInit
    /\ \E case \in ConnectCases, tail \in ConnectTails :
        /\ connections = [n \in NAMES |->
               IF n = "L1_test" THEN Some(Connection(case.port)) ELSE None]
        /\ wire = [n \in NAMES |->
               IF n = "L1_test" THEN <<Data(Lines(case.startup))>> \o tail ELSE <<>>]
        /\ refusals = case.refusals
    /\ svc_connected = FALSE
    /\ events = <<>>
    /\ ret = NoRet

ConnectNext == Connect("L1_test") \/ Disconnect("L1_test")

SpecConnect == ConnectInit /\ [][ConnectNext]_vars

\* The bytes of a sequence of answers, one after the other.
RECURSIVE Bytes(_)
Bytes(answers) ==
    IF Len(answers) = 0 THEN <<>> ELSE answers[1].buf \o Bytes(Tail(answers))

\* The token lists that messages carry from index 2 onward under a marker.
ListsUnder(messages, marker) ==
    { SubSeq(Tokens(messages[i]), 3, Len(Tokens(messages[i]))) :
        i \in { j \in 1..Len(messages) :
                  /\ Len(Tokens(messages[j])) >= 2
                  /\ Tokens(messages[j])[2] = marker } }

\* Some message of the cycle has SERVER CONNECTED as its second token.
HasServerConnected(messages) ==
    \E i \in 1..Len(messages) :
        /\ Len(Tokens(messages[i])) >= 2
        /\ Tokens(messages[i])[2] = Tok("SERVER CONNECTED")

\* The last operation was a connect() on a streaming port that read a
\* startup cycle.
StartupRead ==
    /\ ret.op[1] = "connect"
    /\ connections[ret.op[2]].val.port \in STREAM_PORTS
    /\ Len(events) >= 2 /\ events[1].ev = "connect" /\ events[2].ev = "recv"
    /\ Len(ret.pending[ret.op[2]]) > 0
    /\ ~ret.pending[ret.op[2]][1].timeout

\* C4: after connect() on a streaming port the session is connected exactly
\* when some message of the startup cycle has SERVER CONNECTED as its second
\* token.
C4_ConnectedIffServerConnected ==
    StartupRead =>
        (connections[ret.op[2]].val.connected
            <=> HasServerConnected(Frame(decode(ret.pending[ret.op[2]][1].buf))))

\* The last operation was a connect() whose socket.connect was refused: it
\* was made on a new socket, which is still not connected.
Refused ==
    /\ ret.op[1] = "connect"
    /\ Len(events) > 0 /\ events[1].ev = "connect" /\ events[1].sock = "new"
    /\ connections[ret.op[2]].val.sock = "new"

\* C16: when socket.connect is refused, connect() returns without an
\* exception, the session is not connected, and the refused connect is the
\* only call made on the transport: no read, no write, no second connect.
C16_RefusedConnect ==
    Refused =>
        /\ ret.exc = "none"
        /\ ~connections[ret.op[2]].val.connected
        /\ Len(events) = 1

\* connect() has returned from a refused socket.connect on a streaming port
\* for which the daemon had startup messages ready.
C16_RefusalReturned ==
    /\ Refused
    /\ ret.exc = "none"
    /\ connections[ret.op[2]].val.port \in STREAM_PORTS
    /\ Len(wire[ret.op[2]]) > 1

\* The texts an operation wrote, in order.
Written == SelectSeq(events, LAMBDA call : call.ev = "send")

\* The commands of the handshake on a streaming port, in their order.
HandshakeCommands ==
    <<MsgSetProtocol, MsgRequestFields("F"), MsgRequestFields("Q")>>

\* C20: connect() on a streaming port writes SET PROTOCOL only when the
\* session has been marked connected, then the fundamental and then the
\* update field-name request; when the startup cycle does not validate the
\* session is not connected and none of these commands is written.
C20_HandshakeOrder ==
    (ret.op[1] = "connect" /\ connections[ret.op[2]].val.port \in STREAM_PORTS) =>
        /\ Len(Written) <= Len(HandshakeCommands)
        /\ \A i \in 1..Len(Written) : Written[i].msg = HandshakeCommands[i]
        /\ Len(Written) > 0 => connections[ret.op[2]].val.connected
        /\ (ret.exc = "none" /\ connections[ret.op[2]].val.connected)
              => Len(Written) = Len(HandshakeCommands)

\* C21: connect() on a streaming port never raises on a failed handshake: when
\* a read of the startup or of a negotiation times out, or a cycle holds a
\* message with fewer than two tokens, connect() returns without an exception.
C21_ConnectNeverRaises ==
    (ret.op[1] = "connect" /\ connections[ret.op[2]].val.port \in STREAM_PORTS)
        => ret.exc \notin {"TimeoutError", "IndexError"}

\* The answers that come before the end of the stream.
BeforeEnd(answers) ==
    IF \A i \in 1..Len(answers) : answers[i] # EndOfStream THEN answers
    ELSE SubSeq(answers, 1,
                (CHOOSE i \in 1..Len(answers) :
                    /\ answers[i] = EndOfStream
                    /\ \A j \in 1..(i - 1) : answers[j] # EndOfStream) - 1)

\* Everything the daemon had sent or was to send to the session of the last
\* operation, as messages.
Sent == Frame(decode(Bytes(BeforeEnd(ret.pending[ret.op[2]]))))

\* The last operation was a connect() on a streaming port that returned,
\* its socket.connect accepted.
Handshaken ==
    /\ ret.op[1] = "connect" /\ ret.exc = "none"
    /\ connections[ret.op[2]].val.port \in STREAM_PORTS
    /\ Len(events) > 0 /\ events[1].ev = "connect"
    /\ connections[ret.op[2]].val.sock = "connected"

\* C28: when the startup messages the daemon sends on a streaming port include
\* the SERVER CONNECTED message, connect() marks the session connected,
\* however the messages are grouped into read cycles.
C28_HandshakeAcrossCycles ==
    (Handshaken /\ HasServerConnected(Sent)) => connections[ret.op[2]].val.connected

\* A schema that was never negotiated: the initial empty list, or None.
Absent(schema) == ~schema.some \/ schema.val = <<>>

\* C29: after connect() on a streaming port the stored update schema is
\* absent or a list the daemon sent under CURRENT UPDATE FIELDNAMES, and the
\* stored fundamental schema is absent or a list sent under FUNDAMENTAL
\* FIELDNAMES, however the responses are grouped into read cycles.
C29_SchemasAligned ==
    Handshaken =>
        /\ \/ Absent(connections[ret.op[2]].val.update_fieldnames)
           \/ connections[ret.op[2]].val.update_fieldnames.val
                 \in ListsUnder(Sent, Tok("CURRENT UPDATE FIELDNAMES"))
        /\ \/ Absent(connections[ret.op[2]].val.fundamental_fieldnames)
           \/ connections[ret.op[2]].val.fundamental_fieldnames.val
                 \in ListsUnder(Sent, Tok("FUNDAMENTAL FIELDNAMES"))

\* ------------------------------------------------- one paginated query

\* The number of messages the daemon sends to one query of SpecQuery.
MaxQueryMsgs == 3

\* The fields of one record the daemon sends in answer to a lookup.
LookupFields(query) ==
    IF query = "lookup_security_types" THEN <<"8", "FUTURE", "Future">>
    ELSE IF query = "lookup_market_types"
    THEN <<"5", "NGM", "Nasdaq Global Market", "5", "NASDAQ">>
    ELSE <<"USDJPY.FXCM", "74", "16", "USD JPY">>

\* The message of that record: the request id when one was given, the
\* marker LS, the fields and the carriage return.
LookupRow(query, request_id) ==
    CSV(request_id \o <<"LS">> \o LookupFields(query) \o <<"\r">>)

LOOKUPS == {"lookup_security_types", "lookup_market_types", "lookup_symbol"}

QueryMessages ==
    { LookupRow(query, request_id) : query \in LOOKUPS, request_id \in {<<>>, <<"r1">>} }
    \cup { CSV(<<"LH", "t1", "h", "l", "o", "c", "v", "pv", "n", "\r">>),
           SENTINEL, <<"\r">>, <<>> }

\* The messages cut into at most two read cycles, the first of k messages.
Cycles(messages, k) ==
    (IF k = 0 THEN <<>> ELSE <<Data(Lines(SubSeq(messages, 1, k)))>>)
    \o (IF k = Len(messages) THEN <<>>
        ELSE <<Data(Lines(SubSeq(messages, k + 1, Len(messages))))>>)

\* What the daemon answers to a query's session: the protocol reply, then
\* the cycles, then silence or the end of the stream.
QueryScripts ==
    UNION {{<<ProtocolReply>> \o Cycles(messages, k) \o closing :
               k \in 0..Len(messages), closing \in {<<>>, <<EndOfStream>>}} :
           messages \in SeqsUpTo(QueryMessages, MaxQueryMsgs)}

QueryInit ==
    /\ PacerInit
    /\ connections = ServiceConnections
    /\ svc_connected = FALSE
    /\ \E script \in QueryScripts :
        wire = [n \in NAMES |-> IF n \in {"lookup", "historical"} THEN script ELSE <<>>]
    /\ refusals = 0
    /\ events = <<>>
    /\ ret = NoRet

REQUEST_IDS == {<<>>, <<"r1">>}

\* Service.lookup_security_types(request_id)
LookupSecurityTypes(request_id) ==
    Commit(lookup_security_types(World, request_id),
           <<"lookup_security_types", request_id, Tok("LS")>>)

\* Service.lookup_market_types(request_id)
LookupMarketTypes(request_id) ==
    Commit(lookup_market_types(World, request_id),
           <<"lookup_market_types", request_id, Tok("LS")>>)

\* Service.lookup_symbol(search_str, security_type_id or None, request_id)
LookupSymbol(filter_type, request_id) ==
    Commit(lookup_symbol(World, "USDJPY", filter_type,
                         IF filter_type = <<>> THEN <<>> ELSE <<"16">>, request_id),
           <<"lookup_symbol", request_id, Tok("LS")>>)

\* Service.query_historical(symbol, query_type)
QueryHistorical(query_type) ==
    Commit(query_historical(World, "@ES#C", query_type),
           <<"query_historical", <<>>, Tok("LH")>>)

\* The Service has made no request yet.
Unqueried == time_stamp_queue = <<>>

\* One query on a new Service.
QueryNext ==
    \/ \E request_id \in REQUEST_IDS : Unqueried /\ LookupSecurityTypes(request_id)
    \/ \E request_id \in REQUEST_IDS : Unqueried /\ LookupMarketTypes(request_id)
    \/ \E request_id \in REQUEST_IDS, filter_type \in {<<>>, <<"t">>} :
        Unqueried /\ LookupSymbol(filter_type, request_id)
    \/ \E query_type \in {"trades", "interval"} : Unqueried /\ QueryHistorical(query_type)

SpecQuery == QueryInit /\ [][QueryNext]_vars

\* The last operation was a paginated query whose loop read a cycle.
QueryRead == ret.op[1] \in QUERIES /\ Len(ret.note.cycles) > 0

RECURSIVE Flatten(_)
Flatten(seqs) == IF Len(seqs) = 0 THEN <<>> ELSE seqs[1] \o Flatten(Tail(seqs))

\* The messages the reads of the loop returned, in order of delivery, and
\* the position of the first sentinel among them (0 when there is none).
Delivered == Flatten(ret.note.cycles)
SentinelAt ==
    IF \A i \in 1..Len(Delivered) : Delivered[i] # SENTINEL THEN 0
    ELSE CHOOSE i \in 1..Len(Delivered) :
            Delivered[i] = SENTINEL /\ \A j \in 1..(i - 1) : Delivered[j] # SENTINEL

\* The row the contract makes of a message: without a last token "\r",
\* without a first token equal to the request id, then without a first
\* token equal to the row-type marker.
ContractRow(message, request_id, marker) ==
    LET t0 == Tokens(message)
        t1 == IF t0[Len(t0)] = Tok("\r") THEN SubSeq(t0, 1, Len(t0) - 1) ELSE t0
        t2 == IF t1 # <<>> /\ t1[1] = request_id THEN Tail(t1) ELSE t1
    IN IF t2 # <<>> /\ t2[1] = marker THEN Tail(t2) ELSE t2

\* The contract's rows of the non-empty messages among the first n delivered.
RECURSIVE ContractRows(_, _, _)
ContractRows(messages, request_id, marker) ==
    IF Len(messages) = 0 THEN <<>>
    ELSE (IF messages[1] = <<>> THEN <<>>
          ELSE <<ContractRow(messages[1], request_id, marker)>>)
         \o ContractRows(Tail(messages), request_id, marker)

\* C6: when a sentinel is delivered the accumulation ends at the first one,
\* in the cycle that holds it, and the rows are those of the non-empty
\* messages before it, in order of delivery.
C6_StopsAtSentinel ==
    (QueryRead /\ SentinelAt > 0) =>
        /\ ret.note.end = "sentinel"
        /\ Len(Flatten(SubSeq(ret.note.cycles, 1, Len(ret.note.cycles) - 1))) < SentinelAt
        /\ ret.note.rows
             = ContractRows(SubSeq(Delivered, 1, SentinelAt - 1), ret.op[2], ret.op[3])

\* The messages the loop had to make rows of: those before the sentinel.
ToNormalize ==
    IF SentinelAt > 0 THEN SubSeq(Delivered, 1, SentinelAt - 1) ELSE Delivered

\* C7: every non-empty message before the sentinel gives the row of the
\* contract, and with no request id no row starts with the request id's
\* place holder or the row-type marker.
C7_RowsNormalized ==
    QueryRead =>
        /\ ret.exc # "IndexError"
        /\ ret.note.rows = ContractRows(ToNormalize, ret.op[2], ret.op[3])
        /\ ret.op[2] = <<>> =>
             \A i \in 1..Len(ret.note.rows) :
                 ret.note.rows[i] # <<>> => ret.note.rows[i][1] # ret.op[3]

\* The column list a lookup builds its result with.
ColumnsOf(query, request_id) ==
    Columns(IF query = "lookup_security_types" THEN SEC_TYPE_COLUMNS
            ELSE IF query = "lookup_market_types" THEN MKT_TYPE_COLUMNS
            ELSE SYMBOL_COLUMNS,
            request_id)

\* The last operation was a lookup to which the daemon sent records of that
\* lookup, with the request id it was given, and nothing else before the
\* sentinel.
RecordsDelivered ==
    /\ ret.op[1] \in LOOKUPS
    /\ QueryRead
    /\ \A i \in 1..Len(ToNormalize) : ToNormalize[i] = LookupRow(ret.op[1], ret.op[2])

\* C32: every row a lookup accumulates has as many tokens as the column list
\* the result is built with, with and without a request id.
C32_RowWidthMatchesColumns ==
    RecordsDelivered =>
        \A i \in 1..Len(ret.note.rows) :
            Len(ret.note.rows[i]) = Len(ColumnsOf(ret.op[1], ret.op[2]))

\* The session a query runs on.
QuerySession == IF ret.op[1] = "query_historical" THEN "historical" ELSE "lookup"

\* C27: the accumulation loop of a query ends for every behaviour of the
\* transport, messages, empty cycles of a closed peer or timeouts, and when
\* the query returns its session is disconnected.
C27_QueryTerminates ==
    ret.op[1] \in QUERIES =>
        /\ ret.exc # "NoReturn"
        /\ ret.exc = "none" =>
              /\ ~connections[QuerySession].val.connected
              /\ connections[QuerySession].val.sock = "closed"

\* ------------------------------------------------ the Service's operations

\* The admin cycles the daemon sends after launch() has returned.
MaxAdminCycles == 1

\* The requests of one run.
MaxRequests == 2

\* An S,STATS message: the status is its 14th field.
StatsRow(status) ==
    CSV(<<"S", "STATS", "ip", "60002", "500", "0", "1", "0", "0", "0", "start", "now",
          "", status, "6.2.0.25", "\r">>)

AdminCycles ==
    { Data(Lines(<<StatsRow("Connected")>>)),
      Data(Lines(<<StatsRow("Not Connected")>>)),
      Data(Lines(<<StatsRow("Not Connected"), StatsRow("Connected")>>)),
      Data(Lines(<<CSV(<<"S", "STATS", "Not Connected", "\r">>)>>)) }

\* The cycle of a connected daemon.
Connected3 ==
    [i \in 1..3 |-> Data(Lines(<<StatsRow("Connected")>>))]

\* What the daemon answers on the admin session: nothing; or the protocol
\* reply and one cycle; or the protocol reply, the three cycles launch()
\* reads from a connected daemon, and the cycle it repeats afterwards.
AdminScripts ==
    {<<>>}
    \cup {<<ProtocolReply, first>> : first \in AdminCycles}
    \cup {<<ProtocolReply>> \o Connected3 \o [i \in 1..k |-> later] :
            later \in AdminCycles, k \in 0..MaxAdminCycles}

\* What the daemon answers on a level-1 session: nothing, or the startup
\* messages and the replies to the three requests of connect().
L1Scripts ==
    { <<>>,
      <<Data(Lines(<<CSV(<<"S", "KEY", "k1">>), CSV(<<"S", "SERVER CONNECTED">>),
                     CSV(<<"S", "IP", "ip1">>), CSV(<<"S", "CUST", "c1">>),
                     CSV(<<"S", "KEYOK">>)>>)),
        ProtocolReply, FundamentalReply, UpdateReply>> }

SecurityType == CSV(<<"LS", "8", "FUTURE", "Future", "\r">>)

\* What the daemon answers on the sessions of the queries: nothing, or one
\* row and the sentinel to a first query and the same row to a second.
LookupScripts ==
    { <<>>,
      <<ProtocolReply, Data(Lines(<<SecurityType, SENTINEL>>)),
        ProtocolReply, Data(Lines(<<SecurityType>>))>> }

\* Service.__init__ and the daemon's answers.
ServiceInit ==
    /\ PacerInit
    /\ connections = ServiceConnections
    /\ svc_connected = FALSE
    /\ \E admin \in AdminScripts, l1 \in L1Scripts, lookup \in LookupScripts :
        wire = [n \in NAMES |->
                  IF n = "9300" THEN admin
                  ELSE IF n \in {"5009", "L1_test"} THEN l1
                  ELSE lookup]
    /\ refusals \in {0, 1}
    /\ events = <<>>
    /\ ret = NoRet

\* Service.launch()
Launch == Commit(launch(World), <<"launch">>)

\* Service.health_check()
HealthCheck == Commit(health_check(World), <<"health_check">>)

\* Service.shutdown()
Shutdown == Commit(shutdown(World), <<"shutdown">>)

\* Service.connection(port, name)
OpenConnection(port, name) ==
    Commit(ReturnNone(connection(World, port, name)), <<"connection", name, port>>)

\* The run may make another request.
MayRequest == Len(time_stamp_queue) < MaxRequests

ServiceNext ==
    \/ Launch
    \/ HealthCheck
    \/ Shutdown
    \/ OpenConnection(5009, "L1_test")
    \/ MayRequest /\ LookupSecurityTypes(<<>>)
    \/ MayRequest /\ QueryHistorical("interval")

SpecService == ServiceInit /\ [][ServiceNext]_vars

\* C2: every write to the daemon is immediately preceded by a call of
\* check_requests: in the calls an operation makes, the one before a send
\* is an admit.
C2_WritesAdmitted ==
    \A i \in 1..Len(events) :
        events[i].ev = "send" => (i > 1 /\ events[i - 1].ev = "admit")

\* C8: the value a query returns after a timeout differs from the value it
\* returns when the same rows were followed by the sentinel.
C8_TimeoutObservable ==
    ( /\ ret.op[1] \in QUERIES /\ ret.op = ret.prev.op
      /\ ret.exc = "none" /\ ret.prev.exc = "none"
      /\ ret.note.end = "timeout" /\ ret.prev.note.end = "sentinel"
      /\ ret.note.rows = ret.prev.note.rows )
    => ret.val # ret.prev.val

\* C9: no connect, read or write is made on a socket that disconnect() has
\* closed.
C9_ClosedNeverUsed ==
    \A i \in 1..Len(events) :
        events[i].ev \in {"connect", "send", "recv"} => events[i].sock # "closed"

\* The last STATS message of a cycle has "Not Connected" as its 14th field.
LastStatsNotConnected(messages) ==
    LET stats == {i \in 1..Len(messages) :
                    Len(Tokens(messages[i])) >= 2 /\ IsStats(messages[i])}
    IN /\ stats # {}
       /\ Len(Tokens(messages[Max(stats)])) >= STATUS_COLUMN
       /\ Tokens(messages[Max(stats)])[STATUS_COLUMN] = MSG_DISCONNECT

\* C10: health_check() returns false without a read when no session is
\* under "9300" or it is not connected; otherwise it reads one cycle and
\* returns false exactly when the cycle's last STATS row says Not Connected;
\* the value it returns is the registry's flag.
C10_HealthCheck ==
    ret.op = <<"health_check">> =>
        IF ~connections["9300"].some \/ ~connections["9300"].val.connected
        THEN /\ events = <<>>
             /\ ret.exc = "none" /\ ret.val = FALSE /\ svc_connected = FALSE
        ELSE Len(ret.pending["9300"]) > 0 =>
                /\ Len(events) = 1 /\ events[1].ev = "recv"
                /\ ret.exc = "none"
                /\ ret.val = ~LastStatsNotConnected(Frame(decode(ret.pending["9300"][1].buf)))
                /\ svc_connected = ret.val

\* C34: the connect loop of launch() makes no socket.connect on an admin
\* session whose socket is connected already: a health check that reports
\* the daemon as not connected is not followed by a second connect.
C34_NoSecondConnect ==
    ret.op = <<"launch">> =>
        \A i \in 1..Len(events) :
            ~(events[i].ev = "connect" /\ events[i].name = "9300"
                /\ events[i].sock = "connected")

\* ------------------------------------------------- the session registry

\* The requests of one run of SpecRegistry.
MaxRegistryRequests == 1

\* The startup messages of a level-1 session whose daemon has no server
\* connection, and the reply to SET PROTOCOL.
StartupNotConnected ==
    <<Data(Lines(<<CSV(<<"S", "KEY", "k1">>), CSV(<<"S", "SERVER DISCONNECTED">>),
                   CSV(<<"S", "IP", "ip1">>), CSV(<<"S", "CUST", "c1">>)>>)),
      ProtocolReply>>

\* What the daemon answers to one connect() of a level-1 session.
RegistryL1Scripts ==
    L1Scripts \cup {StartupNotConnected}

\* What the daemon answers on the admin session: nothing, or what launch()
\* reads from a connected daemon.
RegistryAdminScripts ==
    { <<>>, <<ProtocolReply>> \o Connected3 }

\* Service.__init__ and the daemon's answers: the ghost session is answered
\* once, a session opened through the registry twice.
RegistryInit ==
    /\ PacerInit
    /\ connections = ServiceConnections
    /\ svc_connected = FALSE
    /\ \E admin \in RegistryAdminScripts, ghost \in RegistryL1Scripts,
          l1 \in RegistryL1Scripts, lookup \in LookupScripts :
        wire = [n \in NAMES |->
                  IF n = "9300" THEN admin
                  ELSE IF n = "5009" THEN ghost
                  ELSE IF n = "L1_test" THEN l1 \o l1
                  ELSE lookup]
    /\ refusals \in {0, 1}
    /\ events = <<>>
    /\ ret = NoRet

RegistryNext ==
    \/ Launch
    \/ Shutdown
    \/ \E name \in {"L1_test", "5009"} : OpenConnection(5009, name)
    \/ \E name \in {"9300", "5009", "L1_test"} : Disconnect(name)
    \/ Len(time_stamp_queue) < MaxRegistryRequests /\ LookupSecurityTypes(<<>>)

SpecRegistry == RegistryInit /\ [][RegistryNext]_vars

\* C11: after shutdown() has returned every session of the registry is not
\* connected, and after disconnect() on a session that session is not
\* connected; neither call raises.
C11_DisconnectedAfterShutdown ==
    /\ ret.op = <<"shutdown">> =>
          /\ ret.exc = "none"
          /\ \A n \in NAMES : connections[n].some => ~connections[n].val.connected
    /\ ret.op[1] = "disconnect" =>
          /\ ret.exc = "none"
          /\ ~connections[ret.op[2]].val.connected

\* shutdown() has closed the connected sockets of the admin session, of the
\* ghost session and of a session opened through the registry.
C11_ShutdownOfConnected ==
    /\ ret.op = <<"shutdown">>
    /\ \A n \in {"9300", "5009", "L1_test"} :
          \E i \in 1..Len(events) :
              /\ events[i].ev = "close" /\ events[i].name = n
              /\ events[i].sock = "connected"

\* C19: when launch() has returned and the registry's flag is set, the admin
\* session "9300" and the ghost level-1 session "5009" are both connected.
C19_LaunchedBothConnected ==
    (ret.op = <<"launch">> /\ ret.exc = "none" /\ svc_connected) =>
        /\ connections["9300"].val.connected
        /\ connections["5009"].val.connected

\* The connect calls among the calls of an operation.
ConnectCalls(calls) == {i \in 1..Len(calls) : calls[i].ev = "connect"}

\* C17: connection(port, name) leaves a registered and connected session,
\* its transport and the rest of the registry as they are and makes no call;
\* otherwise it puts a newly constructed session of that port under the name
\* and calls connect() on it, once, and no other entry changes.
C17_RegistryConnect ==
    [][ ret'.op[1] = "connection" =>
          IF connections[ret'.op[2]].some /\ connections[ret'.op[2]].val.connected
          THEN /\ connections' = connections
               /\ wire' = wire
               /\ events' = <<>>
          ELSE /\ connections'[ret'.op[2]].some
               /\ connections'[ret'.op[2]].val.port = ret'.op[3]
               /\ Len(events') > 0
               /\ events'[1].ev = "connect" /\ events'[1].name = ret'.op[2]
               /\ events'[1].sock = "new"
               /\ ConnectCalls(events') = {1}
               /\ \A n \in NAMES \ {ret'.op[2]} : connections'[n] = connections[n]
      ]_vars

\* connection() has connected a session under "L1_test" for the second time:
\* the daemon's answers to two connects are used up.
C17_Reconnected ==
    /\ ret.op = <<"connection", "L1_test", 5009>>
    /\ connections["L1_test"].val.connected
    /\ Len(events) > 0 /\ events[1].ev = "connect" /\ events[1].sock = "new"
    /\ wire["L1_test"] = <<>>

\* C31: after shutdown() the flag of the Service is not set, so that a
\* following launch() starts the daemon and connects again.
C31_ShutdownClearsFlag ==
    ret.op = <<"shutdown">> => ~svc_connected

\* ------------------------------------------- framing of the byte stream

\* The number of messages in the stream of SpecFraming.
MaxFrameMsgs == 2

FrameMessages ==
    { CSV(<<"S", "KEY", "k1">>), CSV(<<"S", "SERVER CONNECTED">>),
      CSV(<<"T", WIDE_CHAR>>), <<>> }

\* The bytes the daemon sends for the messages: each is followed by "\n",
\* the last one too unless the stream stops short of it.
StreamBytes(messages, terminated) ==
    IF terminated \/ Len(messages) = 0 THEN encode(Lines(messages))
    ELSE SubSeq(encode(Lines(messages)), 1, Len(encode(Lines(messages))) - 1)

\* The bytes as recv hands them out, cut after c1 and after c2 bytes: at
\* most three chunks, none empty.
Chunks(bytes, c1, c2) ==
    SelectSeq(<<SubSeq(bytes, 1, c1), SubSeq(bytes, c1 + 1, c2),
                SubSeq(bytes, c2 + 1, Len(bytes))>>,
              LAMBDA chunk : chunk # <<>>)

\* One answer of the daemon for each chunk.
Answers(chunks) == [i \in 1..Len(chunks) |-> Data(chunks[i])]

FramingPorts == {9100, 5009}

\* A connected session and the chunks of the stream it is about to receive,
\* followed by silence or by the end of the stream.
FramingInit ==
    /\ PacerInit
    /\ \E port \in FramingPorts :
        connections = [n \in NAMES |->
            IF n = "L1_test"
            THEN Some([Connection(port) EXCEPT !.connected = TRUE, !.sock = "connected"])
            ELSE None]
    /\ \E messages \in SeqsUpTo(FrameMessages, MaxFrameMsgs), terminated \in BOOLEAN,
          closing \in {<<>>, <<EndOfStream>>} :
        \E c2 \in 0..Len(StreamBytes(messages, terminated)) :
            \E c1 \in 0..c2 :
                wire = [n \in NAMES |->
                    IF n = "L1_test"
                    THEN Answers(Chunks(StreamBytes(messages, terminated), c1, c2))
                         \o closing
                    ELSE <<>>]
    /\ refusals = 0
    /\ svc_connected = FALSE
    /\ events = <<>>
    /\ ret = NoRet

FramingNext == Read("L1_test")

SpecFraming == FramingInit /\ [][FramingNext]_vars

\* The data chunks that were pending for the session of the last read.
PendingChunks == SelectSeq(ret.pending[ret.op[2]], LAMBDA a : a # EndOfStream)

\* The chunks the last read took from the transport.
TakenChunks ==
    SubSeq(ret.pending[ret.op[2]], 1,
           Len(ret.pending[ret.op[2]]) - Len(wire[ret.op[2]]))

\* Complete messages were pending, cut into chunks inside messages only: the
\* last chunk ends in "\n" and no other one does.
CutMidMessage(chunks) ==
    /\ Len(chunks) > 0
    /\ \A i \in 1..Len(chunks) :
          (chunks[i].buf[Len(chunks[i].buf)] = "\n") <=> (i = Len(chunks))

\* C12: when complete messages arrive cut into chunks inside messages, one
\* read cycle takes all the chunks and frames the messages that a single
\* chunk of the same bytes holds.
C12_FramingIgnoresChunks ==
    (ret.op[1] = "read" /\ CutMidMessage(PendingChunks)) =>
        /\ ret.exc = "none"
        /\ TakenChunks = PendingChunks
        /\ ret.val.framed = Frame(decode(Bytes(PendingChunks)))

\* C13: when the buffer a read cycle has gathered ends with "\n", the
\* messages framed from it do not end with an empty message.
C13_NoTrailingBlank ==
    ( /\ ret.op[1] = "read" /\ ret.exc = "none"
      /\ Len(TakenChunks) > 0
      /\ Len(ret.val.framed) > 0 )
    => ret.val.framed[Len(ret.val.framed)] # <<>>

\* C26: a read cycle ends when the peer closes the stream, also after a
\* message without its newline: read() returns or raises, it does not loop
\* without end.
C26_ReadEndsAtEndOfStream ==
    ret.op[1] = "read" => ret.exc # "NoReturn"

\* ---------------------------------------------- the field-name requests

\* The number of messages in the cycle that answers a request of SpecFields.
MaxFieldMsgs == 2

FieldsMessages ==
    { CSV(<<"S", "FUNDAMENTAL FIELDNAMES", "Symbol", "PE">>),
      CSV(<<"S", "CURRENT UPDATE FIELDNAMES", "Symbol", "Last">>),
      CSV(<<"S", "CURRENT UPDATE FIELDNAMES">>),
      CSV(<<"S", "CURRENT PROTOCOL", PROTOCOL>>),
      CSV(<<"T", "20240102 09:30:00">>),
      CSV(<<"Q", "MSFT", "7", "\r">>) }

FieldsSchemas == {Some(<<>>), Some(<<Tok("Symbol"), Tok("Last")>>)}

\* A connected level-1 session, before or after its schema was negotiated,
\* and the cycle the daemon sends next.
FieldsInit ==
    /\ PacerInit
    /\ \E schema \in FieldsSchemas :
        connections = [n \in NAMES |->
            IF n = "L1_test"
            THEN Some([Connection(5009) EXCEPT !.connected = TRUE, !.sock = "connected",
                                               !.update_fieldnames = schema])
            ELSE None]
    /\ \E messages \in SeqsUpTo(FieldsMessages, MaxFieldMsgs) :
        wire = [n \in NAMES |->
                  IF n = "L1_test" /\ Len(messages) > 0
                  THEN <<Data(Lines(messages))>> ELSE <<>>]
    /\ refusals = 0
    /\ svc_connected = FALSE
    /\ events = <<>>
    /\ ret = NoRet

FieldsNext == \E field_type \in {"F", "Q"} : RequestFieldnames("L1_test", field_type)

SpecFields == FieldsInit /\ [][FieldsNext]_vars

\* The marker of the reply to a request of a field type.
MarkerOf(field_type) ==
    IF field_type = "F" THEN Tok("FUNDAMENTAL FIELDNAMES")
    ELSE Tok("CURRENT UPDATE FIELDNAMES")

\* The messages with more than two tokens whose second is the marker.
Marked(messages, marker) ==
    {i \in 1..Len(messages) :
        Len(Tokens(messages[i])) > 2 /\ Tokens(messages[i])[2] = marker}

\* The cycle that was pending for the session of the last operation.
PendingCycle == Frame(decode(ret.pending[ret.op[2]][1].buf))

\* C15: request_fieldnames(field_type) writes the request of that type and
\* reads one cycle; it returns the tokens after the first two of a message
\* of more than two tokens whose second token is the marker of that type,
\* and None, without raising, when the cycle has no such message.
C15_FieldNegotiation ==
    (ret.op[1] = "request_fieldnames" /\ Len(ret.pending[ret.op[2]]) > 0) =>
        /\ Len(events) = 2
        /\ events[1].ev = "send" /\ events[1].msg = MsgRequestFields(ret.op[3])
        /\ events[2].ev = "recv"
        /\ ret.exc = "none"
        /\ IF Marked(PendingCycle, MarkerOf(ret.op[3])) = {}
           THEN ret.val = None
           ELSE \E i \in Marked(PendingCycle, MarkerOf(ret.op[3])) :
                   ret.val = Some(SubSeq(Tokens(PendingCycle[i]), 3,
                                         Len(Tokens(PendingCycle[i]))))

\* ----------------------------------------- the symbol of a streaming session

\* The number of cycles the daemon has ready for the session of SpecSymbol.
MaxSymbolCycles == 2

SYMBOLS == {<<"AAPL">>, <<"MSFT">>}

\* The field lists a caller selects.
SymbolSelections == {<<"Symbol", "Bid">>}

\* What the daemon answers: the update field names, full or as selected, a
\* confirmation followed by one without field names, a timestamp.
SymbolCycles ==
    { UpdateReply,
      Data(Lines(<<CSV(<<"S", "CURRENT UPDATE FIELDNAMES", "Symbol", "Bid">>)>>)),
      Data(Lines(<<CSV(<<"S", "CURRENT UPDATE FIELDNAMES", "Symbol", "Bid">>),
                   CSV(<<"S", "CURRENT UPDATE FIELDNAMES">>)>>)),
      TimestampCycle }

SymbolSchemas == { Some(<<Tok("Symbol"), Tok("Last")>>), None }

SymbolPorts == {5009, 9200, 9100}

\* A connected session that watches nothing yet, with the schema connect()
\* left it, and the cycles the daemon will answer with.
SymbolInit ==
    /\ PacerInit
    /\ \E port \in SymbolPorts, schema \in SymbolSchemas :
        connections = [n \in NAMES |->
            IF n = "L1_test"
            THEN Some([Connection(port) EXCEPT !.connected = TRUE, !.sock = "connected",
                                               !.update_fieldnames = schema])
            ELSE None]
    /\ \E script \in SeqsUpTo(SymbolCycles, MaxSymbolCycles) :
        wire = [n \in NAMES |-> IF n = "L1_test" THEN script ELSE <<>>]
    /\ refusals = 0
    /\ svc_connected = FALSE
    /\ events = <<>>
    /\ ret = NoRet

SymbolNext ==
    \/ \E symbol \in SYMBOLS : SymbolWatch("L1_test", symbol)
    \/ \E symbol \in SYMBOLS : SymbolWatchInterval("L1_test", symbol, "1")
    \/ \E symbol \in SYMBOLS : SymbolWatchTrades("L1_test", symbol)
    \/ \E fieldnames \in SymbolSelections : SelectFieldnames("L1_test", fieldnames)
    \/ SymbolTerminate("L1_test")
    \/ SymbolRefresh("L1_test")
    \/ Read("L1_test")
    \/ RequestFieldnames("L1_test", "Q")

SpecSymbol == SymbolInit /\ [][SymbolNext]_vars

\* The session the last operation was called on.
Session == connections[ret.op[2]].val

\* The token lists that the messages of a cycle carry from index 2 onward
\* under the CURRENT UPDATE FIELDNAMES marker.
UpdateLists(messages) == ListsUnder(messages, Tok("CURRENT UPDATE FIELDNAMES"))

\* The cycle the daemon had ready for the session when the last operation
\* began: the one its read received.
Answered ==
    IF Len(ret.pending[ret.op[2]]) = 0 THEN <<>>
    ELSE Frame(decode(ret.pending[ret.op[2]][1].buf))

\* C24: when the cycle select_fieldnames reads holds a CURRENT UPDATE
\* FIELDNAMES message, the stored update schema becomes that message's tokens
\* from index 2 onward and the active symbol is the symbol the daemon is
\* streaming, the one of the session's watch; when the cycle holds no such
\* message, schema and active symbol are unchanged.
C24_SelectFieldnames ==
    [][(ret'.op[1] = "select_fieldnames" /\ ret'.exc = "none") =>
          IF UpdateLists(Answered') = {}
          THEN /\ Session'.update_fieldnames = connections[ret'.op[2]].val.update_fieldnames
               /\ Session'.symbol = connections[ret'.op[2]].val.symbol
          ELSE /\ Session'.update_fieldnames.some
               /\ Session'.update_fieldnames.val \in UpdateLists(Answered')
               /\ ret'.watched.some => Session'.symbol = ret'.watched]_vars

\* C25: after symbol_watch, symbol_watch_interval or symbol_watch_trades has
\* returned, the stored update schema is the field-name list the daemon sent
\* under CURRENT UPDATE FIELDNAMES in answer to the request of that call.
C25_WatchUpdatesSchema ==
    (ret.op[1] \in WATCHES /\ ret.exc = "none" /\ UpdateLists(Answered) # {}) =>
        /\ Session.update_fieldnames.some
        /\ Session.update_fieldnames.val \in UpdateLists(Answered)

\* The unwatch command of a symbol on the level-1 and on the level-2 port.
Unwatch(port, symbol) ==
    IF port = 5009 THEN <<"r">> \o symbol \o <<"\r", "\n">>
    ELSE <<"ROR", ",">> \o symbol \o <<"\r", "\r", "\n">>

\* C30: symbol_terminate() on a level-1 or level-2 session writes the unwatch
\* command of the symbol passed to the session's most recent symbol_watch,
\* whatever was called in between.
C30_TerminateUnwatches ==
    (ret.op[1] = "symbol_terminate" /\ Session.port \in STREAM_PORTS /\ ret.watched.some) =>
        /\ Len(Written) = 1
        /\ Written[1].msg = Unwatch(Session.port, ret.watched.val)

====
